---------------------------- MODULE Spec2Model ----------------------------
(* A model of src/web_app.py: the FastAPI service that loads a pickled     *)
(* classifier at import time and serves POST /predict.                     *)
(*                                                                         *)
(* Numbers.  A JSON value or a Python float is a record [kind, v]:         *)
(*   kind "num"    a finite number v                                       *)
(*   kind "numstr" a string that parses as the finite number v ("4")       *)
(*   kind "badstr" a string that is no number ("not-a-number")             *)
(*   kind "null"   JSON null                                               *)
(*   kind "nan", "inf", "ninf"   NaN, Infinity, -Infinity (json.loads      *)
(*                 reads these literals, and float fields admit them)      *)
(* Probabilities are counted in tenths: 5 stands for 0.5, 2 for 0.2.       *)
EXTENDS Integers, Sequences, FiniteSets

VARIABLES
    phase,        \* "init" before the module is imported, then "serving" or "crashed"
    fileState,    \* MODEL_PATH on disk: "missing", "corrupt" or "ok"
    pkl,          \* the classifier pickled in the file (an artifact id)
    model,        \* the module-level name `model`: [bound, obj]
    loads,        \* how many times load_model has run
    startupError, \* the exception that ended the import, "" if none
    req           \* the requests in flight, one slot per worker thread

vars == <<phase, fileState, pkl, model, loads, startupError, req>>

-----------------------------------------------------------------------------
(* Bounds of the model *)

MaxArtifact == 2    \* classifiers 0..MaxArtifact can be in the pickle
MaxBase == 2        \* how many different finite feature assignments are sent
MaxRot == 1         \* key orders: rotations 0..MaxRot of the canonical order, and their reversals
MaxRequests == 2    \* worker threads serving requests at the same time

Artifacts == 0..MaxArtifact
Requests == 1..MaxRequests

-----------------------------------------------------------------------------
(* web_app.py:22 *)

FEATURES == <<"Female_age", "BMI", "PLT", "FSH", "TSH">>

FeatureNames == {FEATURES[i] : i \in 1..Len(FEATURES)}

Num(n) == [kind |-> "num", v |-> n]
NaN == [kind |-> "nan", v |-> 0]
PosInf == [kind |-> "inf", v |-> 0]
NegInf == [kind |-> "ninf", v |-> 0]

IsFinite(x) == x.kind = "num"

-----------------------------------------------------------------------------
(* A JSON object is a sequence of [k, x] pairs with distinct keys, in the  *)
(* order the caller wrote them; a Python dict is the same.                 *)

Has(obj, key) == \E i \in 1..Len(obj) : obj[i].k = key

Lookup(obj, key) == obj[CHOOSE i \in 1..Len(obj) : obj[i].k = key].x

Keys(obj) == {obj[i].k : i \in 1..Len(obj)}


-----------------------------------------------------------------------------
(* load_model, web_app.py:25-29.  The result is what the call does: it     *)
(* raises (FileNotFoundError for a missing file, pickle's error for a file *)
(* that does not unpickle) or returns the unpickled object.                *)

\* faulty variant: a file that cannot be loaded is swallowed, not raised
load_model_lenient(fs, content) ==
    IF fs = "ok"
    THEN [raised |-> FALSE, exc |-> "", value |-> content]
    ELSE [raised |-> FALSE, exc |-> "", value |-> 0]

load_model(fs, content) ==
    IF fs = "missing"
    THEN [raised |-> TRUE, exc |-> "FileNotFoundError", value |-> 0]
    ELSE IF fs = "corrupt"
    THEN [raised |-> TRUE, exc |-> "UnpicklingError", value |-> 0]
    ELSE [raised |-> FALSE, exc |-> "", value |-> content]

-----------------------------------------------------------------------------
(* PatientFeatures, web_app.py:35-40: five required float fields, declared *)
(* with no model_config, so unknown keys are ignored and NaN / infinities  *)
(* are admitted (the BaseModel defaults).                                  *)

FIELDS == <<"Female_age", "BMI", "PLT", "FSH", "TSH">>

\* float coercion of one value: a numeric string is parsed, a float is kept
ToFloat(x) == IF x.kind = "numstr" THEN Num(x.v) ELSE x

\* a value a float field accepts
Coercible(x) == x.kind \in {"num", "numstr", "nan", "inf", "ninf"}

\* faulty variant: only presence is checked, not the type of the value
FieldErrors_untyped(obj) ==
    {FIELDS[i] : i \in {j \in 1..Len(FIELDS) : ~Has(obj, FIELDS[j])}}

\* the fields the validation error names: missing, or not coercible to float
FieldErrors(obj) ==
    {FIELDS[i] : i \in {j \in 1..Len(FIELDS) :
        \/ ~Has(obj, FIELDS[j])
        \/ ~Coercible(Lookup(obj, FIELDS[j]))}}

\* faulty variant: the fields are bound by position in the body, not by name
PatientFeatures_positional(obj) ==
    [i \in 1..Len(FIELDS) |-> [k |-> FIELDS[i], x |-> ToFloat(obj[i].x)]]

\* the validated object, as model_dump() lists it: the declared fields in
\* declaration order, each bound to the value sent under its name
PatientFeatures(obj) ==
    [i \in 1..Len(FIELDS) |-> [k |-> FIELDS[i], x |-> ToFloat(Lookup(obj, FIELDS[i]))]]

-----------------------------------------------------------------------------
(* to_dataframe, web_app.py:46-49: one row, the columns picked by name in  *)
(* the order of FEATURES.                                                  *)

to_dataframe(payload) ==
    [i \in 1..Len(FEATURES) |-> Lookup(payload, FEATURES[i])]

-----------------------------------------------------------------------------
(* model.predict_proba(df)[0, 1], web_app.py:238.  The classifier is an    *)
(* opaque unpickled object; it is sampled by a family of deterministic     *)
(* tables indexed by the artifact:                                         *)
(*   artifact 0 was fitted on other columns and raises on every record;    *)
(*   even artifacts refuse infinities, odd ones saturate them;             *)
(*   every artifact reads NaN as a missing value;                          *)
(*   a column that is no float makes every artifact raise.                 *)

ProbGrid == <<0, 1, 2, 3, 5, 6, 10>>

Code(x) ==
    IF x.kind = "num" THEN x.v
    ELSE IF x.kind = "inf" THEN 8
    ELSE 0

RECURSIVE WeightedSum(_, _)
WeightedSum(df, i) ==
    IF i = 0 THEN 0 ELSE i * Code(df[i]) + WeightedSum(df, i - 1)

Raise(text) == [raised |-> TRUE, proba |-> 0, text |-> text]

predict_proba(m, df) ==
    IF \E i \in 1..Len(df) : df[i].kind \notin {"num", "nan", "inf", "ninf"}
    THEN Raise("could not convert string to float")
    ELSE IF m = 0
    THEN Raise("feature_names mismatch")
    ELSE IF m % 2 = 0 /\ \E i \in 1..Len(df) : df[i].kind \in {"inf", "ninf"}
    THEN Raise("Input data contains inf or a value too large")
    ELSE [raised |-> FALSE,
          proba |-> ProbGrid[((m + WeightedSum(df, Len(df))) % Len(ProbGrid)) + 1],
          text |-> ""]

NoOutcome == [raised |-> FALSE, proba |-> 0, text |-> ""]

-----------------------------------------------------------------------------
(* The body of predict, web_app.py:236-242 *)

NoResponse ==
    [status |-> 0, keys |-> {}, probability |-> 0, label |-> 0,
     detail |-> "", errors |-> {}]

\* faulty variant: the threshold excluded
label_exclusive(proba) == IF proba > 5 THEN 1 ELSE 0

\* int(proba >= 0.5), web_app.py:239
label(proba) == IF proba >= 5 THEN 1 ELSE 0

\* return {"probability": proba, "label": label}, web_app.py:240
try_return(out) ==
    [NoResponse EXCEPT !.status = 200, !.keys = {"probability", "label"},
                       !.probability = out.proba, !.label = label(out.proba)]

\* faulty variant: the exception is swallowed and a default result returned
except_default(out) ==
    [NoResponse EXCEPT !.status = 200, !.keys = {"probability", "label"}]

\* raise HTTPException(status_code=500, detail=str(exc)), web_app.py:241-242
except_raise(out) ==
    [NoResponse EXCEPT !.status = 500, !.keys = {"detail"}, !.detail = out.text]

\* the 422 the framework answers when PatientFeatures rejects the body
validation_error(errs) ==
    [NoResponse EXCEPT !.status = 422, !.keys = {"detail"}, !.errors = errs]

-----------------------------------------------------------------------------
(* The request bodies sent to POST /predict *)

\* key orders: the canonical order rotated by k, and the same reversed
Rot(k) == [i \in 1..Len(FEATURES) |-> ((i + 4 * k - 1) % Len(FEATURES)) + 1]
Rev(o) == [i \in 1..Len(FEATURES) |-> o[Len(FEATURES) + 1 - i]]
KeyOrders == {Rot(k) : k \in 0..MaxRot} \cup {Rev(Rot(k)) : k \in 0..MaxRot}

\* the finite value of field i in assignment b (distinct across the fields)
BaseValue(b, i) == Num((i * b) % 7)

OddValues ==
    {[kind |-> "numstr", v |-> 4], [kind |-> "badstr", v |-> 0],
     [kind |-> "null", v |-> 0], NaN, PosInf, NegInf}

\* what is done to one field of an otherwise finite body
NoChange == [f |-> "", drop |-> FALSE, x |-> Num(0)]
Drops == {[f |-> n, drop |-> TRUE, x |-> Num(0)] : n \in FeatureNames}
Replacements == {[f |-> n, drop |-> FALSE, x |-> v] : n \in FeatureNames, v \in OddValues}

ExtraPair == [k |-> "LH", x |-> Num(9)]

RawInput(b, o, p, extra) ==
    LET full == [i \in 1..Len(FEATURES) |->
                    [k |-> FEATURES[o[i]],
                     x |-> IF FEATURES[o[i]] = p.f THEN p.x ELSE BaseValue(b, o[i])]]
        Kept(e) == ~(p.drop /\ e.k = p.f)
        kept == SelectSeq(full, Kept)
    IN  IF extra THEN <<ExtraPair>> \o kept ELSE kept

RawInputs ==
    {RawInput(b, o, p, extra) :
        b \in 1..MaxBase, o \in KeyOrders,
        p \in {NoChange} \cup Drops \cup Replacements, extra \in BOOLEAN}

\* the bodies sent while several requests are in flight
ConcInputs ==
    {RawInput(b, o, NoChange, FALSE) : b \in 1..MaxBase, o \in {Rot(0), Rev(Rot(0))}}
    \cup {RawInput(1, Rot(0), [f |-> "TSH", drop |-> TRUE, x |-> Num(0)], FALSE)}

-----------------------------------------------------------------------------
(* State *)

Unbound == [bound |-> FALSE, obj |-> 0]

Idle ==
    [pc |-> "idle", raw |-> <<>>, features |-> <<>>, df |-> <<>>,
     calls |-> 0, outcome |-> NoOutcome, response |-> NoResponse]

Init ==
    /\ phase = "init"
    /\ fileState \in {"missing", "corrupt", "ok"}
    /\ pkl \in (IF fileState = "ok" THEN Artifacts ELSE {0})
    /\ model = Unbound
    /\ loads = 0
    /\ startupError = ""
    /\ req = [r \in Requests |-> Idle]

-----------------------------------------------------------------------------
(* Actions *)

\* model = load_model(MODEL_PATH), web_app.py:32, run once when the module
\* is imported; an exception there ends the process before `app` exists
Load ==
    /\ phase = "init"
    /\ LET res == load_model(fileState, pkl)
       IN  /\ loads' = loads + 1
           /\ IF res.raised
              THEN /\ phase' = "crashed"
                   /\ startupError' = res.exc
                   /\ model' = model
              ELSE /\ phase' = "serving"
                   /\ startupError' = startupError
                   /\ model' = [bound |-> TRUE, obj |-> res.value]
    /\ UNCHANGED <<fileState, pkl, req>>

\* a POST /predict with body raw reaches the application
Receive(r, inputs) ==
    /\ phase = "serving"
    /\ req[r].pc = "idle"
    /\ \E raw \in inputs :
         req' = [req EXCEPT ![r] = [Idle EXCEPT !.pc = "received", !.raw = raw]]
    /\ UNCHANGED <<phase, fileState, pkl, model, loads, startupError>>

\* the body is validated against PatientFeatures before predict is entered
\* (web_app.py:235): a 422 naming the fields, or the validated object
Validate(r) ==
    /\ req[r].pc = "received"
    /\ LET errs == FieldErrors(req[r].raw)
       IN  IF errs # {}
           THEN req' = [req EXCEPT ![r].pc = "done",
                                   ![r].response = validation_error(errs)]
           ELSE req' = [req EXCEPT ![r].pc = "handler",
                                   ![r].features = PatientFeatures(req[r].raw)]
    /\ UNCHANGED <<phase, fileState, pkl, model, loads, startupError>>

\* faulty variant: the call leaves the shared classifier changed
PredictCall_updating(r) ==
    /\ req[r].pc = "handler"
    /\ LET df == to_dataframe(req[r].features)
       IN  req' = [req EXCEPT ![r].pc = "called",
                              ![r].df = df,
                              ![r].calls = @ + 1,
                              ![r].outcome = predict_proba(model.obj, df)]
    /\ model' = [model EXCEPT !.obj = (@ % MaxArtifact) + 1]
    /\ UNCHANGED <<phase, fileState, pkl, loads, startupError>>

\* web_app.py:237-238: the frame is built and the classifier is called
PredictCall(r) ==
    /\ req[r].pc = "handler"
    /\ LET df == to_dataframe(req[r].features)
       IN  req' = [req EXCEPT ![r].pc = "called",
                              ![r].df = df,
                              ![r].calls = @ + 1,
                              ![r].outcome = predict_proba(model.obj, df)]
    /\ UNCHANGED <<phase, fileState, pkl, model, loads, startupError>>

\* web_app.py:239-242: the result is returned, or the exception is turned
\* into an HTTP 500
PredictReturn(r) ==
    /\ req[r].pc = "called"
    /\ req' = [req EXCEPT ![r].pc = "done",
                          ![r].response = IF req[r].outcome.raised
                                          THEN except_raise(req[r].outcome)
                                          ELSE try_return(req[r].outcome)]
    /\ UNCHANGED <<phase, fileState, pkl, model, loads, startupError>>

\* the response has been sent; the worker takes the next request
Complete(r) ==
    /\ req[r].pc = "done"
    /\ req' = [req EXCEPT ![r] = Idle]
    /\ UNCHANGED <<phase, fileState, pkl, model, loads, startupError>>

-----------------------------------------------------------------------------
(* Specifications *)

\* one request at a time, every body of RawInputs
Next ==
    \/ Load
    \/ Receive(1, RawInputs)
    \/ Validate(1)
    \/ PredictCall(1)
    \/ PredictReturn(1)
    \/ Complete(1)

Spec == Init /\ [][Next]_vars

\* MaxRequests requests interleaved, the bodies of ConcInputs
NextConc ==
    \/ Load
    \/ \E r \in Requests :
         \/ Receive(r, ConcInputs)
         \/ Validate(r)
         \/ PredictCall(r)
         \/ PredictReturn(r)
         \/ Complete(r)

SpecConc == Init /\ [][NextConc]_vars

-----------------------------------------------------------------------------
(* Properties *)

Returned(r) == req[r].pc = "done" /\ req[r].response.status = 200

\* the three-tier policy of the specification, in tenths
Tier(p) == IF p > 5 THEN "HIGH" ELSE IF p < 2 THEN "LOW" ELSE "MODERATE"

\* C1 as stated: the discrete output of predict is in its top (positive)
\* tier exactly when the probability is in tier HIGH, that is p > 0.5; a
\* probability of exactly 0.5 is not in the top tier.
C1_ThreeTierPolicy ==
    \A r \in Requests :
        Returned(r) =>
            (req[r].response.label = 1 <=> Tier(req[r].response.probability) = "HIGH")

\* C1 amended: the discrete output of predict is a binary label, a function
\* of the returned probability alone: 1 iff p >= 0.5 and 0 iff p < 0.5; the
\* probability returned is the classifier's, unchanged.
C1_TwoTierPolicy ==
    \A r \in Requests :
        Returned(r) =>
            /\ req[r].response.probability = req[r].outcome.proba
            /\ req[r].response.label \in {0, 1}
            /\ req[r].response.label = 1 <=> req[r].response.probability >= 5

\* a request answered with probability exactly 0.5
C1_Witness ==
    \E r \in Requests :
        Returned(r) /\ req[r].response.probability = 5 /\ req[r].response.label = 1

\* the same five name-to-value pairs, written in key order o
Reordered(obj, o) ==
    [i \in 1..Len(FEATURES) |->
        [k |-> FEATURES[o[i]], x |-> Lookup(obj, FEATURES[o[i]])]]

\* C2: the record handed to the classifier has the five columns in the order
\* of FEATURES, each holding the value sent under that name, and the same
\* pairs sent in any other key order give the same record.
C2_OrderingInvariance ==
    \A r \in Requests :
        req[r].calls > 0 =>
            /\ Len(req[r].df) = Len(FEATURES)
            /\ \A i \in 1..Len(FEATURES) :
                 req[r].df[i] = ToFloat(Lookup(req[r].raw, FEATURES[i]))
            /\ \A o \in KeyOrders :
                 to_dataframe(PatientFeatures(Reordered(req[r].raw, o))) = req[r].df

\* a record was handed over for a body whose keys were not in canonical order
C2_Witness ==
    \E r \in Requests :
        /\ req[r].calls > 0
        /\ Keys(req[r].raw) = FeatureNames
        /\ \E i \in 1..Len(FEATURES) : req[r].raw[i].k # FEATURES[i]

\* a body that lacks a required field or holds a value that is no number
Invalid(obj) ==
    \E f \in FeatureNames :
        ~Has(obj, f) \/ Lookup(obj, f).kind \in {"badstr", "null"}

\* C3: a request whose body lacks a required field, or holds a non-numeric
\* value for one, never enters predict: the classifier is not called for it
\* and it ends in the validation error (422) naming fields.
C3_ValidationPrecedesInference ==
    \A r \in Requests :
        (req[r].pc # "idle" /\ Invalid(req[r].raw)) =>
            /\ req[r].calls = 0
            /\ req[r].pc \in {"received", "done"}
            /\ req[r].pc = "done" =>
                 req[r].response.status = 422 /\ req[r].response.errors # {}

\* an invalid body has been answered
C3_Witness ==
    \E r \in Requests :
        /\ req[r].pc = "done"
        /\ Invalid(req[r].raw)
        /\ req[r].response.status = 422

NonFinite(obj) ==
    \E i \in 1..Len(obj) :
        obj[i].k \in FeatureNames /\ obj[i].x.kind \in {"nan", "inf", "ninf"}

\* C4 as stated: every record handed to the classifier has five finite
\* fields, and a body holding NaN or an infinity ends in a validation error.
C4_OnlyFiniteReachesClassifier ==
    \A r \in Requests :
        /\ req[r].calls > 0 => \A i \in 1..Len(req[r].df) : IsFinite(req[r].df[i])
        /\ (req[r].pc = "done" /\ NonFinite(req[r].raw)) => req[r].response.status = 422

\* C5 as stated: a body holding a key outside the five field names is
\* answered with a validation error.
C5_ExtraFieldRejected ==
    \A r \in Requests :
        (req[r].pc = "done" /\ ~(Keys(req[r].raw) \subseteq FeatureNames)) =>
            req[r].response.status = 422

\* C6: while requests interleave, the loaded classifier stays the object that
\* was unpickled, any two records handed to it that are equal get the same
\* outcome, and any two answered requests with the same validated features
\* carry the same response.
C6_Determinism ==
    /\ phase = "serving" => model = [bound |-> TRUE, obj |-> pkl]
    /\ \A r1, r2 \in Requests :
         /\ (req[r1].calls > 0 /\ req[r2].calls > 0 /\ req[r1].df = req[r2].df)
               => req[r1].outcome = req[r2].outcome
         /\ (/\ req[r1].pc = "done" /\ req[r2].pc = "done"
             /\ req[r1].calls > 0 /\ req[r2].calls > 0
             /\ req[r1].features = req[r2].features)
               => req[r1].response = req[r2].response

\* two requests with the same features, sent in different key orders, have
\* both been answered with a probability
C6_Witness ==
    \E r1, r2 \in Requests :
        /\ r1 # r2
        /\ Returned(r1) /\ Returned(r2)
        /\ req[r1].features = req[r2].features
        /\ req[r1].raw # req[r2].raw

\* C7: a request whose classifier call raised ends in a failure response
\* that carries neither a probability nor a label, and the classifier is
\* called once per request at most.
C7_FailureWithoutFabrication ==
    \A r \in Requests :
        /\ req[r].calls <= 1
        /\ (req[r].pc = "done" /\ req[r].outcome.raised) =>
             /\ req[r].response.status = 500
             /\ req[r].response.keys \cap {"probability", "label"} = {}
             /\ req[r].calls = 1

\* a request whose classifier call raised has been answered
C7_Witness ==
    \E r \in Requests :
        req[r].pc = "done" /\ req[r].outcome.raised /\ req[r].calls = 1

\* C8 as stated: the detail of the failure response for an exception raised
\* inside predict differs from the exception's own text.
C8_NoVerbatimExceptionText ==
    \A r \in Requests :
        (req[r].pc = "done" /\ req[r].response.status = 500) =>
            req[r].response.detail # req[r].outcome.text

\* C10: load_model runs once, before any request; a request is in progress
\* only with the classifier bound from an existing file; a file that cannot
\* be loaded ends the start-up with its exception and no request is ever
\* received or answered.
C10_StartupGate ==
    /\ loads <= 1
    /\ phase = "init" => loads = 0 /\ \A r \in Requests : req[r] = Idle
    /\ \A r \in Requests :
         req[r].pc # "idle" => model.bound /\ loads = 1 /\ fileState = "ok"
    /\ (fileState # "ok" /\ phase # "init") =>
         /\ phase = "crashed"
         /\ startupError # ""
         /\ ~model.bound
         /\ \A r \in Requests : req[r] = Idle

\* the start-up failed on a missing model file
C10_Witness ==
    /\ phase = "crashed"
    /\ fileState = "missing"
    /\ loads = 1
    /\ startupError = "FileNotFoundError"

=============================================================================
